---- MODULE Spec2Model ----
(***************************************************************************)
(* Model of src/app.py: the webhook relay that authenticates a request,    *)
(* starts a worker thread, downloads a thumbnail, uploads it to the CMS    *)
(* media endpoint, creates a post and notifies the workflow webhook.       *)
(***************************************************************************)
EXTENDS Integers, Sequences, FiniteSets, TLC

(***************************************************************************)
(* Bounds.                                                                 *)
(***************************************************************************)
\* number of HTTP requests the server receives (each may get its own thread)
NReq == 2

Requests == 1..NReq

\* names NamedTemporaryFile may draw: always one more than there are threads
Names == 1..(NReq + 1)

(***************************************************************************)
(* Python values that occur in a request body: None, str, list of int, int.*)
(* A str is a sequence of one-character strings.                           *)
(***************************************************************************)
None == [t |-> "none", s |-> <<>>, l |-> <<>>, n |-> 0]

PyStr(chars) == [t |-> "str", s |-> chars, l |-> <<>>, n |-> 0]

PyList(elems) == [t |-> "list", s |-> <<>>, l |-> elems, n |-> 0]

PyInt(k) == [t |-> "int", s |-> <<>>, l |-> <<>>, n |-> k]

\* Python truth value of a body value, as tested by `if title and ...`
Truthy(v) ==
    CASE v.t = "none" -> FALSE
      [] v.t = "str"  -> Len(v.s) > 0
      [] v.t = "list" -> Len(v.l) > 0
      [] v.t = "int"  -> v.n # 0

(***************************************************************************)
(* json.loads on the texts the model feeds it.  The alphabet is digits,    *)
(* "[", "]", ",", "-" and letters; over it a text is valid JSON exactly    *)
(* when it is an unsigned integer without a leading zero or a flat list of *)
(* such integers.  Anything else raises json.JSONDecodeError.              *)
(***************************************************************************)
DigitChars == {"0", "1", "2", "3", "4", "5", "6", "7", "8", "9"}

DigitVal(c) ==
    CASE c = "0" -> 0 [] c = "1" -> 1 [] c = "2" -> 2 [] c = "3" -> 3
      [] c = "4" -> 4 [] c = "5" -> 5 [] c = "6" -> 6 [] c = "7" -> 7
      [] c = "8" -> 8 [] c = "9" -> 9

IsNumber(s) ==
    /\ Len(s) > 0
    /\ \A i \in 1..Len(s) : s[i] \in DigitChars
    /\ (Len(s) > 1 => s[1] # "0")

RECURSIVE ToInt(_)
ToInt(s) ==
    IF Len(s) = 0 THEN 0
    ELSE 10 * ToInt(SubSeq(s, 1, Len(s) - 1)) + DigitVal(s[Len(s)])

\* position of the first "," of s, or Len(s) + 1
RECURSIVE CommaAt(_, _)
CommaAt(s, i) ==
    IF i > Len(s) \/ s[i] = "," THEN i ELSE CommaAt(s, i + 1)

\* the comma-separated items of s
RECURSIVE Items(_)
Items(s) ==
    LET c == CommaAt(s, 1)
    IN IF c > Len(s) THEN <<s>>
       ELSE <<SubSeq(s, 1, c - 1)>> \o Items(SubSeq(s, c + 1, Len(s)))

JsonError == [ok |-> FALSE, val |-> None]

JsonLoads(s) ==
    IF IsNumber(s) THEN [ok |-> TRUE, val |-> PyInt(ToInt(s))]
    ELSE IF Len(s) >= 2 /\ s[1] = "[" /\ s[Len(s)] = "]"
    THEN LET inner == SubSeq(s, 2, Len(s) - 1)
             items == Items(inner)
         IN IF Len(inner) = 0 THEN [ok |-> TRUE, val |-> PyList(<<>>)]
            ELSE IF \A i \in 1..Len(items) : IsNumber(items[i])
            THEN [ok |-> TRUE,
                  val |-> PyList([i \in 1..Len(items) |-> ToInt(items[i])])]
            ELSE JsonError
    ELSE JsonError

(***************************************************************************)
(* Request bodies.  A JSON object is a function from the keys below to     *)
(* values; a key the object does not carry maps to None, which is what     *)
(* req_data.get(key) returns for it.                                       *)
(***************************************************************************)
CodeKeys == {"title", "author", "content", "status", "categories",
             "thumbnail_url", "alt_text", "description", "username",
             "password", "daprun_id"}

\* "run_id" is the name the PostRequest description gives the run identifier
BodyKeys == CodeKeys \cup {"run_id"}

X == PyStr(<<"x">>)

RunA == PyStr(<<"a">>)

RunB == PyStr(<<"b">>)

ValidBody(daprun, run) ==
    [k \in BodyKeys |->
        CASE k = "categories" -> PyList(<<1, 2, 3>>)
          [] k = "daprun_id"  -> daprun
          [] k = "run_id"     -> run
          [] OTHER            -> X]

\* values tried for the categories field
CategoryValues ==
    { None, PyList(<<>>), PyList(<<1, 2, 3>>), PyInt(5), PyInt(0),
      PyStr(<<"[", "1", ",", "2", ",", "3", "]">>),
      PyStr(<<"[", "4", "]">>),
      PyStr(<<"[", "]">>),
      PyStr(<<"7">>),
      PyStr(<<"1", "0">>),
      PyStr(<<"0">>),
      PyStr(<<"[", "1", ",", "]">>),
      PyStr(<<"n", "o", "t", "-", "j", "s", "o", "n">>),
      PyStr(<<>>) }

FieldValues(k) ==
    IF k = "categories" THEN CategoryValues ELSE {None, PyStr(<<>>), X}

\* the body of the requests that run concurrently
CoreBody == ValidBody(RunA, None)

\* the valid bodies with one field changed, and the run identifier under
\* either name
AllBodies ==
    { [ValidBody(RunA, None) EXCEPT ![k] = v] :
          <<k, v>> \in UNION { {k} \X FieldValues(k) : k \in CodeKeys } }
    \cup { ValidBody(d, r) : <<d, r>> \in {None, RunA, RunB} \X {None, RunA, RunB} }

EmptyBody == [k \in BodyKeys |-> None]

API_KEY == "Sample_Key"

\* request.headers.get('key'): the secret, another value, or no header
NoKey == "<no key header>"

KeyHeaders == {API_KEY, "Wrong_Key", NoKey}

\* what `await request.json()` does with the body:
\*   "object"     the body is a JSON object, data holds it
\*   "nonobject"  the body is valid JSON but no object (a list, a number)
\*   "malformed"  the JSON parser rejects the text: json.JSONDecodeError
\*   "unreadable" reading or decoding the body raises another exception
Input(kind, key, data) == [kind |-> kind, key |-> key, data |-> data]

InputsOver(bodies) ==
    { Input("object", key, b) : <<key, b>> \in KeyHeaders \X bodies }
    \cup { Input(kind, key, EmptyBody) :
             <<kind, key>> \in {"nonobject", "malformed", "unreadable"} \X KeyHeaders }

\* the requests that run concurrently: accepted, rejected, malformed
CoreInputs ==
    { Input("object", API_KEY, CoreBody),
      Input("object", "Wrong_Key", CoreBody),
      Input("malformed", API_KEY, EmptyBody) }

\* every kind of request, over the bodies given
NoInput == Input("none", NoKey, EmptyBody)

(***************************************************************************)
(* State.                                                                  *)
(***************************************************************************)
VARIABLES
    req,            \* req[r]: the request as received (its body and key header)
    hpc,            \* hpc[r]: where the handler create_post is for request r
    resp,           \* resp[r]: the HTTP response returned (status 0: none yet)
    started,        \* started[r]: worker threads started for request r
    wpc,            \* wpc[r]: where the worker thread of request r is
    exc,            \* exc[r]: the exception that ended the worker, "" if none
    calls,          \* calls[r]: the upstream HTTP calls made, in order
    args,           \* args[r]: what create_post_in_wordpress was called with
    temp_file,      \* temp_file[r]: name of the temporary file, 0 for None
    pending,        \* pending[r]: how the try block of the upload was left
    attachment,     \* attachment[r]: thumbnail_attachment_id
    response_data,  \* response_data[r]: decoded response of the posts call
    notified,       \* notified[r]: payloads sent to the workflow webhook
    notify_result,  \* notify_result[r]: what notify_successful_post returned
    result,         \* result[r]: what create_post_in_wordpress returned
    logged,         \* logged[r]: error and warning messages logged
    tmp_dir,        \* files in the transient directory, each with its creator
    foreign,        \* files removed by a thread that did not create them
    posts           \* posts held by the CMS

vars == <<req, hpc, resp, started, wpc, exc, calls, args, temp_file, pending,
          attachment, response_data, notified, notify_result, result, logged,
          tmp_dir, foreign, posts>>

handlerVars == <<req, hpc, resp, started>>

pipelineVars == <<calls, args, temp_file, pending, attachment, response_data,
                  notified, notify_result, result, tmp_dir, foreign, posts>>

NoResponse == [status |-> 0, message |-> ""]

Response(status, message) == [status |-> status, message |-> message]

NoArgs == [categories |-> None, daprun_id |-> None]

NoPending == [kind |-> "none", id |-> None]

NoData == [has_id |-> FALSE, id |-> 0]

Unset == [t |-> "unset", id |-> 0]

ReturnedNone == [t |-> "none", id |-> 0]

Returned(data) == [t |-> "response", id |-> data.id]

Init ==
    /\ req = [r \in Requests |-> NoInput]
    /\ hpc = [r \in Requests |-> "none"]
    /\ resp = [r \in Requests |-> NoResponse]
    /\ started = [r \in Requests |-> 0]
    /\ wpc = [r \in Requests |-> "idle"]
    /\ exc = [r \in Requests |-> ""]
    /\ calls = [r \in Requests |-> <<>>]
    /\ args = [r \in Requests |-> NoArgs]
    /\ temp_file = [r \in Requests |-> 0]
    /\ pending = [r \in Requests |-> NoPending]
    /\ attachment = [r \in Requests |-> None]
    /\ response_data = [r \in Requests |-> NoData]
    /\ notified = [r \in Requests |-> <<>>]
    /\ notify_result = [r \in Requests |-> "unset"]
    /\ result = [r \in Requests |-> Unset]
    /\ logged = [r \in Requests |-> {}]
    /\ tmp_dir = {}
    /\ foreign = {}
    /\ posts = {}

(***************************************************************************)
(* The request handler create_post.                                        *)
(***************************************************************************)
\* a request reaches POST /api/create_post
Arrive(r, in) ==
    /\ hpc[r] = "none"
    /\ req' = [req EXCEPT ![r] = in]
    /\ hpc' = [hpc EXCEPT ![r] = "parse"]
    /\ UNCHANGED <<resp, started, wpc, exc, logged>>
    /\ UNCHANGED pipelineVars

\* as ParseFailure, but a body the parser rejects is answered like any other
\* exception
ParseFailureAs500(kind) ==
    CASE kind \in {"malformed", "unreadable"} -> Response(500, "Internal server error")
      [] OTHER                                -> NoResponse

\* the response `await request.json()` leads to when it raises, NoResponse
\* when it returns the parsed body (json.dumps of a parsed body cannot fail)
ParseFailure(kind) ==
    CASE kind = "malformed"  -> Response(400, "Invalid JSON format")
      [] kind = "unreadable" -> Response(500, "Internal server error")
      [] OTHER               -> NoResponse

ParseBody(r) ==
    /\ hpc[r] = "parse"
    /\ LET failure == ParseFailure(req[r].kind)
       IN IF failure = NoResponse
          THEN /\ hpc' = [hpc EXCEPT ![r] = "auth"]
               /\ UNCHANGED <<resp, logged>>
          ELSE /\ hpc' = [hpc EXCEPT ![r] = "returned"]
               /\ resp' = [resp EXCEPT ![r] = failure]
               /\ logged' = [logged EXCEPT ![r] = @ \cup
                    {IF failure.status = 400 THEN "Error processing request JSON"
                                             ELSE "Error processing request"}]
    /\ UNCHANGED <<req, started, wpc, exc>>
    /\ UNCHANGED pipelineVars

\* as KeyMatches, but any key header that is present is accepted
KeyMatchesPresent(key) == key # NoKey

\* `if key == API_KEY`
KeyMatches(key) == key = API_KEY

\* authentication; on success the worker thread is started
Authenticate(r) ==
    /\ hpc[r] = "auth"
    /\ IF KeyMatches(req[r].key)
       THEN /\ started' = [started EXCEPT ![r] = @ + 1]
            /\ wpc' = [wpc EXCEPT ![r] = "start"]
            /\ hpc' = [hpc EXCEPT ![r] = "respond"]
            /\ UNCHANGED <<resp, logged>>
       ELSE /\ resp' = [resp EXCEPT ![r] = Response(401, "Key authentication failed")]
            /\ logged' = [logged EXCEPT ![r] = @ \cup {"Key authentication failed"}]
            /\ hpc' = [hpc EXCEPT ![r] = "returned"]
            /\ UNCHANGED <<started, wpc>>
    /\ UNCHANGED <<req, exc>>
    /\ UNCHANGED pipelineVars

\* as Acknowledgement, but with the message of the failure branch
AcknowledgementFailed == Response(200, "Key authentication failed")

\* the response returned once Thread(...).start() has returned
Acknowledgement == Response(200, "Key authentication successful")

Respond(r) ==
    /\ hpc[r] = "respond"
    /\ resp' = [resp EXCEPT ![r] = Acknowledgement]
    /\ hpc' = [hpc EXCEPT ![r] = "returned"]
    /\ UNCHANGED <<req, started, wpc, exc, logged>>
    /\ UNCHANGED pipelineVars

(***************************************************************************)
(* The worker thread: process_media_and_post_async.                        *)
(***************************************************************************)
\* the categories handling: a str is decoded, a list is kept, anything else
\* is an error
NormalizeCategories(c) ==
    IF c.t = "str"
    THEN LET parsed == JsonLoads(c.s)
         IN IF parsed.ok
            THEN [ok |-> TRUE, val |-> parsed.val, err |-> ""]
            ELSE [ok |-> FALSE, val |-> None,
                  err |-> "Error processing categories"]
    ELSE IF c.t # "list"
    THEN [ok |-> FALSE, val |-> None,
          err |-> "Categories should be a list or a JSON-encoded string representing a list"]
    ELSE [ok |-> TRUE, val |-> c, err |-> ""]

\* as AllPresent, but the run identifier is not looked at
AllPresentNoRun(data, categories) ==
    /\ Truthy(categories)
    /\ \A k \in CodeKeys \ {"categories", "daprun_id"} : Truthy(data[k])

\* `if title and author and ... and daprun_id`
AllPresent(data, categories) ==
    /\ Truthy(categories)
    /\ \A k \in CodeKeys \ {"categories"} : Truthy(data[k])

\* as OnFailure, but the pipeline goes on to the next step
OnFailureProceed(step) ==
    CASE step = "download" -> "post"
      [] step = "upload"   -> "post"
      [] step = "post"     -> "notify"

\* as OnFailure, but the step is tried again
OnFailureRetry(step) == step

\* where a step that failed and was caught goes next: it returns None
OnFailure(step) == "done"

Call(name, ok) == [call |-> name, ok |-> ok]

Validate(r) ==
    /\ wpc[r] = "start"
    /\ IF req[r].kind # "object"
       THEN \* req_data.get on a value that is no dict
            /\ exc' = [exc EXCEPT ![r] = "AttributeError: req_data"]
            /\ wpc' = [wpc EXCEPT ![r] = "crashed"]
            /\ UNCHANGED <<args, logged>>
       ELSE LET data == req[r].data
                norm == NormalizeCategories(data["categories"])
            IN IF ~norm.ok
               THEN /\ logged' = [logged EXCEPT ![r] = @ \cup {norm.err}]
                    /\ wpc' = [wpc EXCEPT ![r] = "done"]
                    /\ UNCHANGED <<args, exc>>
               ELSE IF AllPresent(data, norm.val)
               THEN /\ args' = [args EXCEPT ![r] =
                          [categories |-> norm.val, daprun_id |-> data["daprun_id"]]]
                    /\ wpc' = [wpc EXCEPT ![r] = "download"]
                    /\ UNCHANGED <<logged, exc>>
               ELSE /\ logged' = [logged EXCEPT ![r] = @ \cup {"Missing required parameters"}]
                    /\ wpc' = [wpc EXCEPT ![r] = "done"]
                    /\ UNCHANGED <<args, exc>>
    /\ UNCHANGED handlerVars
    /\ UNCHANGED <<calls, temp_file, pending, attachment, response_data,
                   notified, notify_result, result, tmp_dir, foreign, posts>>

(***************************************************************************)
(* upload_image_to_wordpress: the Image Fetcher and the Media Uploader.    *)
(***************************************************************************)
\* requests.get and raise_for_status
Download(r) ==
    /\ wpc[r] = "download"
    /\ \E ok \in BOOLEAN :
         /\ calls' = [calls EXCEPT ![r] = Append(@, Call("download", ok))]
         /\ IF ok
            THEN /\ wpc' = [wpc EXCEPT ![r] = "tmpfile"]
                 /\ UNCHANGED <<logged, result>>
            ELSE \* caught; temp_file is None; the caller gets None
                 /\ logged' = [logged EXCEPT ![r] = @ \cup
                       {"Error uploading image",
                        "Failed to upload image, cannot create post"}]
                 /\ result' = [result EXCEPT ![r] = ReturnedNone]
                 /\ wpc' = [wpc EXCEPT ![r] = OnFailure("download")]
    /\ UNCHANGED handlerVars
    /\ UNCHANGED <<exc, args, temp_file, pending, attachment, response_data,
                   notified, notify_result, tmp_dir, foreign, posts>>

\* as TempNames, but a name in use can be drawn again
TempNamesAny(dir) == Names

\* the names NamedTemporaryFile can give a new file: it creates the file
\* exclusively, so never the name of a file that exists.  Names are
\* interchangeable, so of the free names the model takes the least.
TempNames(dir) ==
    LET free == Names \ {f.name : f \in dir}
    IN {n \in free : \A m \in free : n <= m}

File(name, owner) == [name |-> name, owner |-> owner]

CreateTemp(r) ==
    /\ wpc[r] = "tmpfile"
    /\ \E n \in TempNames(tmp_dir) :
         /\ temp_file' = [temp_file EXCEPT ![r] = n]
         /\ tmp_dir' = {f \in tmp_dir : f.name # n} \cup {File(n, r)}
    /\ wpc' = [wpc EXCEPT ![r] = "write"]
    /\ UNCHANGED handlerVars
    /\ UNCHANGED <<exc, logged, calls, args, pending, attachment, response_data,
                   notified, notify_result, result, foreign, posts>>

\* write, close, read back, build the multipart body: any of these can raise
\* an exception that is no requests.RequestException (OSError, TypeError)
WriteTemp(r) ==
    /\ wpc[r] = "write"
    /\ \E ok \in BOOLEAN :
         IF ok
         THEN /\ wpc' = [wpc EXCEPT ![r] = "upload"]
              /\ UNCHANGED <<pending, exc>>
         ELSE /\ pending' = [pending EXCEPT ![r] = [kind |-> "raise", id |-> None]]
              /\ exc' = [exc EXCEPT ![r] = "OSError"]
              /\ wpc' = [wpc EXCEPT ![r] = "cleanup"]
    /\ UNCHANGED handlerVars
    /\ UNCHANGED <<logged, calls, args, temp_file, attachment, response_data,
                   notified, notify_result, result, tmp_dir, foreign, posts>>

MediaIds == {0, 7}

\* what the media endpoint can answer: a transport or HTTP error, a body
\* that is no JSON (response.json() then raises requests' JSONDecodeError, a
\* RequestException), a JSON list, an object without id, an object with id
UploadResponses ==
    { [kind |-> k, id |-> 0] : k \in {"error", "undecodable", "list", "noid"} }
    \cup { [kind |-> "id", id |-> n] : n \in MediaIds }

\* how the try block is left after the media call
UploadOutcome(u) ==
    CASE u.kind \in {"error", "undecodable"} -> [kind |-> "caught", id |-> None]
      [] u.kind = "list"                     -> [kind |-> "raise", id |-> None]
      [] u.kind = "noid"                     -> [kind |-> "return", id |-> None]
      [] u.kind = "id"                       -> [kind |-> "return", id |-> PyInt(u.id)]

Upload(r) ==
    /\ wpc[r] = "upload"
    /\ \E u \in UploadResponses :
         LET out == UploadOutcome(u)
         IN /\ calls' = [calls EXCEPT ![r] = Append(@, Call("media", u.kind # "error"))]
            /\ pending' = [pending EXCEPT ![r] = out]
            /\ logged' = [logged EXCEPT ![r] =
                  IF out.kind = "caught" THEN @ \cup {"Error uploading image"} ELSE @]
            /\ exc' = [exc EXCEPT ![r] =
                  IF out.kind = "raise" THEN "AttributeError: media response" ELSE @]
    /\ wpc' = [wpc EXCEPT ![r] = "cleanup"]
    /\ UNCHANGED handlerVars
    /\ UNCHANGED <<args, temp_file, attachment, response_data, notified,
                   notify_result, result, tmp_dir, foreign, posts>>

\* os.unlink(name)
Unlink(dir, name) == {f \in dir : f.name # name}

\* the finally block, the return, and the caller's `if thumbnail_attachment_id`
Cleanup(r) ==
    /\ wpc[r] = "cleanup"
    /\ IF temp_file[r] # 0
       THEN /\ tmp_dir' = Unlink(tmp_dir, temp_file[r])
            /\ foreign' = foreign \cup
                  {f \in tmp_dir \ tmp_dir' : f.owner # r}
       ELSE UNCHANGED <<tmp_dir, foreign>>
    /\ IF pending[r].kind = "raise"
       THEN /\ wpc' = [wpc EXCEPT ![r] = "crashed"]
            /\ UNCHANGED <<attachment, logged, result>>
       ELSE /\ attachment' = [attachment EXCEPT ![r] = pending[r].id]
            /\ IF Truthy(pending[r].id)
               THEN /\ wpc' = [wpc EXCEPT ![r] = "post"]
                    /\ UNCHANGED <<logged, result>>
               ELSE /\ logged' = [logged EXCEPT ![r] = @ \cup
                          {"Failed to upload image, cannot create post"}]
                    /\ result' = [result EXCEPT ![r] = ReturnedNone]
                    /\ wpc' = [wpc EXCEPT ![r] = OnFailure("upload")]
    /\ UNCHANGED handlerVars
    /\ UNCHANGED <<exc, calls, args, temp_file, pending, response_data,
                   notified, notify_result, posts>>

(***************************************************************************)
(* create_post_in_wordpress after the upload: the Post Creator.            *)
(***************************************************************************)
\* the id the CMS gives the next post
NewPostId(ps) == Cardinality(ps) + 1

Post(id, media, categories, run) ==
    [id |-> id, featured_media |-> media, categories |-> categories, run |-> run]

\* what the posts endpoint can answer: a transport or HTTP error (no post is
\* made), or success with a body that is no JSON, an object without id, or
\* an object with the id of the new post
PostResponses == {"error", "undecodable", "noid", "id"}

CreatePost(r) ==
    /\ wpc[r] = "post"
    /\ \E o \in PostResponses :
         LET id == NewPostId(posts)
         IN /\ calls' = [calls EXCEPT ![r] = Append(@, Call("posts", o # "error"))]
            /\ posts' = IF o = "error" THEN posts
                        ELSE posts \cup {Post(id, attachment[r].n, args[r].categories, r)}
            /\ CASE o \in {"error", "undecodable"} ->
                      \* requests.RequestException, caught
                      /\ logged' = [logged EXCEPT ![r] = @ \cup {"Error creating post"}]
                      /\ result' = [result EXCEPT ![r] = ReturnedNone]
                      /\ wpc' = [wpc EXCEPT ![r] = OnFailure("post")]
                      /\ UNCHANGED <<exc, response_data>>
                 [] o = "noid" ->
                      \* response_data['id'] raises KeyError, which nothing catches
                      /\ exc' = [exc EXCEPT ![r] = "KeyError: id"]
                      /\ wpc' = [wpc EXCEPT ![r] = "crashed"]
                      /\ UNCHANGED <<logged, result, response_data>>
                 [] o = "id" ->
                      /\ response_data' = [response_data EXCEPT ![r] =
                            [has_id |-> TRUE, id |-> id]]
                      /\ wpc' = [wpc EXCEPT ![r] = "notify"]
                      /\ UNCHANGED <<exc, logged, result>>
    /\ UNCHANGED handlerVars
    /\ UNCHANGED <<args, temp_file, pending, attachment, notified, notify_result,
                   tmp_dir, foreign>>

(***************************************************************************)
(* notify_successful_post: the Completion Notifier.                        *)
(***************************************************************************)
\* the JSON sent to the workflow webhook
NotifyPayload(post_id, daprun_id) ==
    [post_id |-> post_id, status |-> "successful", daprun_id |-> daprun_id]

\* the webhook answers 200, answers another status, or the call raises
NotifyOutcomes == {"200", "other status", "raises"}

\* as AfterNotify, but a failed notification makes the pipeline return None
AfterNotifyChecked(data, notify_ok) ==
    IF notify_ok THEN Returned(data) ELSE ReturnedNone

\* what create_post_in_wordpress returns after the notification
AfterNotify(data, notify_ok) == Returned(data)

Notify(r) ==
    /\ wpc[r] = "notify"
    /\ notified' = [notified EXCEPT ![r] =
          Append(@, NotifyPayload(response_data[r].id, args[r].daprun_id))]
    /\ \E o \in NotifyOutcomes :
         /\ calls' = [calls EXCEPT ![r] = Append(@, Call("notify", o = "200"))]
         /\ notify_result' = [notify_result EXCEPT ![r] =
               IF o = "200" THEN "True" ELSE "False"]
         /\ logged' = [logged EXCEPT ![r] =
               CASE o = "200"          -> @
                 [] o = "other status" -> @ \cup {"Failed to notify"}
                 [] o = "raises"       -> @ \cup {"Error in notify_successful_post"}]
         /\ result' = [result EXCEPT ![r] = AfterNotify(response_data[r], o = "200")]
    /\ wpc' = [wpc EXCEPT ![r] = "done"]
    /\ UNCHANGED handlerVars
    /\ UNCHANGED <<exc, args, temp_file, pending, attachment, response_data,
                   tmp_dir, foreign, posts>>

(***************************************************************************)
(* Specifications.                                                         *)
(***************************************************************************)
Step(r) ==
    \/ ParseBody(r)
    \/ Authenticate(r)
    \/ Respond(r)
    \/ Validate(r)
    \/ Download(r)
    \/ CreateTemp(r)
    \/ WriteTemp(r)
    \/ Upload(r)
    \/ Cleanup(r)
    \/ CreatePost(r)
    \/ Notify(r)

\* several requests in flight
Next ==
    \/ \E r \in Requests : \E in \in CoreInputs : Arrive(r, in)
    \/ \E r \in Requests : Step(r)

Spec == Init /\ [][Next]_vars

\* one request, over every body
NextBody ==
    \/ \E in \in InputsOver(AllBodies) : Arrive(1, in)
    \/ Step(1)

SpecBody == Init /\ [][NextBody]_vars

(***************************************************************************)
(* Vocabulary of the properties.                                           *)
(***************************************************************************)
CallNames(r) == [i \in 1..Len(calls[r]) |-> calls[r][i].call]

Made(r, name) == \E i \in 1..Len(calls[r]) : calls[r][i].call = name

\* the call `name` of run r was made and came back without a transport or
\* HTTP error before position i of the run's calls
SucceededBefore(r, name, i) ==
    \E j \in 1..(i - 1) : calls[r][j].call = name /\ calls[r][j].ok

Succeeded(r, name) == SucceededBefore(r, name, Len(calls[r]) + 1)

Failed(r, name) ==
    \E i \in 1..Len(calls[r]) : calls[r][i].call = name /\ ~calls[r][i].ok

Finished(r) == wpc[r] \in {"done", "crashed"}

Pipeline == <<"download", "media", "posts", "notify">>

IsPrefix(s, u) == Len(s) <= Len(u) /\ \A i \in 1..Len(s) : s[i] = u[i]

\* C1: the posts endpoint is called only after the download and the media
\* upload of the same run succeeded and gave a media identifier, the notifier
\* only after the posts call of the run succeeded; a failed download means
\* neither is ever called.
C1_PostOnlyAfterUpload ==
    \A r \in Requests :
        /\ \A i \in 1..Len(calls[r]) :
              /\ calls[r][i].call = "posts" =>
                    /\ SucceededBefore(r, "download", i)
                    /\ SucceededBefore(r, "media", i)
                    /\ attachment[r].t = "int" /\ attachment[r].n # 0
              /\ calls[r][i].call = "notify" =>
                    /\ SucceededBefore(r, "posts", i)
                    /\ response_data[r].has_id
        /\ Failed(r, "download") => ~Made(r, "posts") /\ ~Made(r, "notify")
        /\ \A p \in posts : p.run = r =>
              Succeeded(r, "media") /\ p.featured_media = attachment[r].n

\* one run has reached the notifier while another stopped at a failed download
C1_Witness ==
    \E r1, r2 \in Requests :
        /\ Made(r1, "notify")
        /\ wpc[r2] = "done" /\ calls[r2] = <<Call("download", FALSE)>>

\* C5 as stated: the notification carries the post id of the run's posts call
\* and the run_id field of the request body, and the response object is
\* returned whatever the notifier does.
C5_NotifierCarriesRunId ==
    \A r \in Requests : \A i \in 1..Len(notified[r]) :
        /\ notified[r][i].post_id = response_data[r].id
        /\ notified[r][i].daprun_id = req[r].data["run_id"]

\* C5, amended: the notification carries the post id of the run's posts call
\* and the daprun_id field of the request body; whatever the notifier does,
\* the post stays in the CMS and the response object is returned.
C5_NotifierCarriesDaprunId ==
    \A r \in Requests :
        /\ \A i \in 1..Len(notified[r]) :
              /\ response_data[r].has_id
              /\ notified[r][i].post_id = response_data[r].id
              /\ notified[r][i].status = "successful"
              /\ notified[r][i].daprun_id = req[r].data["daprun_id"]
              /\ \E p \in posts : p.id = notified[r][i].post_id /\ p.run = r
        /\ Made(r, "notify") =>
              /\ Len(notified[r]) = 1
              /\ wpc[r] = "done"
              /\ result[r] = [t |-> "response", id |-> response_data[r].id]
              /\ \E p \in posts : p.id = response_data[r].id /\ p.run = r

\* two runs have notified, one of them without success, each with its own post
C5_Witness ==
    \E r1, r2 \in Requests :
        /\ r1 # r2
        /\ Made(r1, "notify") /\ notify_result[r1] = "False"
        /\ Made(r2, "notify")
        /\ notified[r1][1].post_id # notified[r2][1].post_id
        /\ result[r1].t = "response"

\* C6: concurrent pipelines each write a file of their own under a name no
\* other file has, delete only that file, and have removed it on every way
\* out of upload_image_to_wordpress; when all have finished the directory
\* holds none of their files.
C6_TempFilesRemoved ==
    /\ foreign = {}
    /\ \A f \in tmp_dir :
          /\ wpc[f.owner] \in {"write", "upload", "cleanup"}
          /\ temp_file[f.owner] = f.name
    /\ \A f, g \in tmp_dir : f.name = g.name => f.owner = g.owner
    /\ \A r \in Requests :
          /\ wpc[r] \in {"write", "upload", "cleanup"} =>
                File(temp_file[r], r) \in tmp_dir
          /\ wpc[r] \in {"post", "notify", "done", "crashed"} =>
                ~\E f \in tmp_dir : f.owner = r
    /\ (\A r \in Requests : Finished(r) \/ wpc[r] = "idle") => tmp_dir = {}

\* a run that raised after creating its file has ended without it while
\* another run still holds its own
C6_Witness ==
    \E r1, r2 \in Requests :
        /\ r1 # r2
        /\ wpc[r1] = "crashed" /\ exc[r1] = "OSError" /\ temp_file[r1] # 0
        /\ wpc[r2] = "upload" /\ File(temp_file[r2], r2) \in tmp_dir

\* the exceptions an upstream answer can raise
UpstreamErrors == {"KeyError: id", "AttributeError: media response"}

\* C9: every failure of an upstream step is caught in the step that hit it,
\* so no exception caused by an upstream answer ends the worker thread.
C9_UpstreamFailuresCaught ==
    \A r \in Requests :
        /\ wpc[r] = "crashed" => exc[r] \notin UpstreamErrors
        /\ \A i \in 1..Len(calls[r]) : ~calls[r][i].ok => i = Len(calls[r])

\* C10: an authenticated request starts exactly one run, and a run makes each
\* upstream call at most once, in the order download, media, posts, notify.
C10_AtMostOnceInOrder ==
    \A r \in Requests :
        /\ started[r] <= 1
        /\ (hpc[r] = "respond" \/ resp[r].status = 200) => started[r] = 1
        /\ (hpc[r] = "returned" /\ resp[r].status # 200) => started[r] = 0
        /\ started[r] = 0 => wpc[r] = "idle" /\ calls[r] = <<>>
        /\ IsPrefix(CallNames(r), Pipeline)

\* a run has made all four calls, another stopped after a failed posts call
C10_Witness ==
    \E r1, r2 \in Requests :
        /\ CallNames(r1) = Pipeline
        /\ wpc[r2] = "done" /\ Failed(r2, "posts")

(***************************************************************************)
(* Properties of the handler and of the validation of the body.            *)
(***************************************************************************)
Rejected(r) == req[r].kind # "none" /\ req[r].key # API_KEY

NothingStarted(r) == started[r] = 0 /\ wpc[r] = "idle" /\ calls[r] = <<>>

\* C2 as stated: every request whose key header is missing or wrong is
\* answered 401, starts no thread and makes no upstream call.
C2_BadKeyAlways401 ==
    \A r \in Requests : Rejected(r) =>
        /\ NothingStarted(r)
        /\ hpc[r] = "returned" => resp[r].status = 401

\* C2, amended: a request whose key header is missing or wrong starts no
\* thread and makes no upstream call; it is answered 401 when its body parses
\* as JSON, and 400 or 500 as for any key when it does not.
C2_BadKeyRejected ==
    \A r \in Requests : Rejected(r) =>
        /\ NothingStarted(r)
        /\ hpc[r] = "returned" =>
              resp[r] = CASE req[r].kind \in {"object", "nonobject"} ->
                                [status |-> 401, message |-> "Key authentication failed"]
                          [] req[r].kind = "malformed" ->
                                [status |-> 400, message |-> "Invalid JSON format"]
                          [] req[r].kind = "unreadable" ->
                                [status |-> 500, message |-> "Internal server error"]

\* a complete body sent with a wrong key has been answered 401
C2_Witness ==
    \E r \in Requests :
        /\ req[r].kind = "object" /\ req[r].key = "Wrong_Key"
        /\ \A k \in CodeKeys : Truthy(req[r].data[k])
        /\ resp[r].status = 401

\* the category values that are a non-empty list or encode one
ListCategories ==
    { PyList(<<1, 2, 3>>),
      PyStr(<<"[", "1", ",", "2", ",", "3", "]">>),
      PyStr(<<"[", "4", "]">>) }

\* a valid PostRequest sent with the right key
ValidRequest(r) ==
    /\ req[r].kind = "object"
    /\ req[r].key = API_KEY
    /\ \A k \in CodeKeys : Truthy(req[r].data[k])
    /\ req[r].data["categories"] \in ListCategories

\* C3 as stated: a valid request is answered 200 "Key authentication
\* successful", and in every interleaving the answer is returned before the
\* background pipeline completes.
C3_ResponseBeforeCompletion ==
    \A r \in Requests : ValidRequest(r) =>
        /\ hpc[r] = "returned" =>
              resp[r] = [status |-> 200, message |-> "Key authentication successful"]
        /\ Finished(r) => hpc[r] = "returned"

\* C3, amended: a valid request is answered 200 "Key authentication
\* successful" once its worker thread has been started; the handler does not
\* wait for the pipeline, which may complete before or after the answer.
C3_ResponseAfterStart ==
    \A r \in Requests : ValidRequest(r) =>
        /\ hpc[r] = "returned" =>
              /\ resp[r] = [status |-> 200, message |-> "Key authentication successful"]
              /\ started[r] = 1
              /\ wpc[r] # "idle"
        /\ hpc[r] = "respond" => started[r] = 1 /\ resp[r].status = 0

\* the answer has been returned while the pipeline is still at the download
C3_Witness ==
    \E r \in Requests :
        /\ ValidRequest(r)
        /\ resp[r].status = 200
        /\ wpc[r] = "download"

ValidationErrors ==
    { "Error processing categories",
      "Categories should be a list or a JSON-encoded string representing a list",
      "Missing required parameters" }

Validated(r) == wpc[r] \notin {"idle", "start"}

\* C7: the categories handed to the Post Creator are always a list: a list is
\* passed as it is, a JSON string is decoded, and a string that is no JSON or
\* a value that is neither aborts the run, with an error logged, before any
\* upstream call.
C7_CategoriesAlwaysList ==
    \A r \in Requests : Validated(r) /\ req[r].kind = "object" =>
        LET c == req[r].data["categories"]
        IN /\ args[r] # NoArgs => args[r].categories.t = "list"
           /\ (c.t = "list" /\ args[r] # NoArgs) => args[r].categories = c
           /\ (c.t \notin {"str", "list"}) =>
                 /\ wpc[r] = "done" /\ calls[r] = <<>>
                 /\ logged[r] \cap ValidationErrors # {}

\* the names the PostRequest description gives the required fields
SpecKeys == (CodeKeys \ {"daprun_id"}) \cup {"run_id"}

Accepted(r) == req[r].kind = "object" /\ req[r].key = API_KEY

\* the validation let the run through to the Image Fetcher
Proceeded(r) ==
    /\ logged[r] \cap ValidationErrors = {}
    /\ wpc[r] = "download" \/ Made(r, "download")

\* the run was stopped by the validation, with an error logged and no call
Aborted(r) ==
    /\ wpc[r] = "done"
    /\ calls[r] = <<>>
    /\ logged[r] \cap ValidationErrors # {}

\* C8 as stated, with the field names of the PostRequest description: a body
\* that lacks one of them is answered 200 and aborted without upstream call,
\* a body that has them all proceeds to the Image Fetcher.
C8_SpecFieldsRequired ==
    \A r \in Requests : Accepted(r) =>
        /\ hpc[r] = "returned" => resp[r].status = 200
        /\ Validated(r) =>
              IF \E k \in SpecKeys : ~Truthy(req[r].data[k])
              THEN Aborted(r)
              ELSE Proceeded(r)

\* C8, amended: the required fields are those the code reads (daprun_id, not
\* run_id); a JSON object that lacks one is answered 200 and aborted without
\* upstream call, and one that has them all, with categories a non-empty
\* list or a string encoding one, proceeds to the Image Fetcher.
C8_CodeFieldsRequired ==
    \A r \in Requests : Accepted(r) =>
        /\ hpc[r] = "returned" => resp[r].status = 200
        /\ Validated(r) =>
              /\ (\E k \in CodeKeys : ~Truthy(req[r].data[k])) => Aborted(r)
              /\ ( /\ \A k \in CodeKeys : Truthy(req[r].data[k])
                   /\ req[r].data["categories"] \in ListCategories ) => Proceeded(r)

\* a body without daprun_id was answered 200 and its run aborted
C8_Witness ==
    \E r \in Requests :
        /\ Accepted(r)
        /\ ~Truthy(req[r].data["daprun_id"])
        /\ \A k \in CodeKeys \ {"daprun_id"} : Truthy(req[r].data[k])
        /\ resp[r].status = 200
        /\ Aborted(r)

====
